---- MODULE Spec2Model ----
(***************************************************************************)
(* A model of the Streamlit demo script app.py and of the OSMConnection    *)
(* wrapper osm.py.  One run of the script is a sequence of steps (pc);     *)
(* between two runs the user changes one widget and Streamlit runs the     *)
(* script again from the top with the widgets' values kept.                *)
(*                                                                         *)
(* The two external services are a fixed world chosen in Init: what the    *)
(* geocoder answers for the place name (nominatim_db) and the nodes of the *)
(* map inside the queried area (osm_map).    A service answers the same    *)
(* request with the same data, so the memoisation of st.cache_data never   *)
(* changes an answer; a call may also raise (network or service failure).  *)
(* Strings are TLC strings, concatenated with \o as the script does with + *)
(* and join.                                                               *)
(***************************************************************************)
EXTENDS Integers, Sequences, FiniteSets, TLC

VARIABLES
    nominatim_db,   \* world: the geocoder's JSON answer for QueryName
    osm_map,        \* world: the map, `size' nodes whose tags repeat `tags'
    place_name,     \* widget: value of st.text_input
    select_index,   \* widget: index held by st.selectbox
    user_chose,     \* history: the user picked an option of the selectbox
    choices,        \* widget: value of st.multiselect, in the order picked
    rendered,       \* widgets the current run has rendered
    pc,             \* position of the current run of the script
    places,         \* app.py:83
    selection,      \* app.py:85-94, <<>> is None, <<p>> is the place p
    selectors,      \* app.py:103-105
    nodes,          \* app.py:109
    query,          \* app.py:110-113
    overpass_calls, \* calls of query_overpass_raw made by the current run
    results,        \* app.py:115, the elements of the OverpassResult
    pois,           \* app.py:122-127
    shown,          \* what the run has written to the page, in order
    raised          \* the exception that ended the run, "none" if none

vars == <<nominatim_db, osm_map, place_name, select_index, user_chose,
          choices, rendered, pc, places, selection, selectors, nodes, query,
          overpass_calls, results, pois, shown, raised>>

world == <<nominatim_db, osm_map>>
widgets == <<place_name, select_index, user_chose, choices>>

-----------------------------------------------------------------------------
(* Bounds of the model.                                                    *)

MaxPlaces == 2      \* longest answer of the geocoder
MaxNodes == 2       \* most nodes of a small map
MaxChoices == 2     \* most categories picked in the multiselect

(* Program constants.                                                      *)

H3_LEVEL == 12
DISPLAY_CAP == 10000

-----------------------------------------------------------------------------
(* Generic helpers.                                                        *)

Range(s) == {s[i] : i \in 1..Len(s)}

Min(a, b) == IF a < b THEN a ELSE b

SeqsUpTo(S, n) == UNION {[1..k -> S] : k \in 0..n}

NoDuplicates(s) == \A i, j \in 1..Len(s) : s[i] = s[j] => i = j

\* sep.join(parts)
RECURSIVE Join(_, _)
Join(parts, sep) ==
    IF Len(parts) = 0 THEN ""
    ELSE IF Len(parts) = 1 THEN parts[1]
    ELSE parts[1] \o sep \o Join(Tail(parts), sep)

\* Python's s[:n] for n >= 0
Take(s, n) == SubSeq(s, 1, Min(Len(s), n))

(* Python's `sub in s` on strings.  s contains sub iff s = pre + sub + post *)
(* for some strings pre and post; Affixes holds every pre and post that    *)
(* decomposes a tag key of the model around "addr" or "name".              *)
Affixes == {"", "old_", ":street", "sur", "_prefix"}

Contains(s, sub) ==
    \E pre \in Affixes, post \in Affixes :
        /\ Len(s) = Len(pre) + Len(sub) + Len(post)
        /\ s = pre \o sub \o post

-----------------------------------------------------------------------------
(* Static configuration of app.py.                                         *)

\* poi_categories.items(), in declaration order: (name, (key, values))
poi_categories == <<
    [name |-> "Clinics and Hospitals", key |-> "amenity",
     vals |-> <<"clinic", "hospital">>],
    [name |-> "Schools and Kindergartners", key |-> "amenity",
     vals |-> <<"school", "kindergarten">>],
    [name |-> "Restaurants", key |-> "amenity",
     vals |-> <<"restaurant">>],
    [name |-> "Cinemas and Theaters", key |-> "amenity",
     vals |-> <<"cinema", "theatre">>],
    [name |-> "Grocery stores and supermarkets", key |-> "shop",
     vals |-> <<"convenience", "greengrocer", "seafood", "mall",
                "wholesale", "supermarket">>] >>

poi_colors ==
    ( "Clinics and Hospitals" :> <<141, 211, 199>> ) @@
    ( "Schools and Kindergartners" :> <<255, 255, 179>> ) @@
    ( "Restaurants" :> <<190, 186, 218>> ) @@
    ( "Cinemas and Theaters" :> <<251, 128, 114>> ) @@
    ( "Grocery stores and supermarkets" :> <<128, 177, 211>> )

-----------------------------------------------------------------------------
(* The world: what the two services can answer.                            *)

QueryName == "San Francisco"

PlaceNames == {"", QueryName}

\* Records of a NominatimResult's JSON; boundingbox is the service's
\* (south, north, west, east), four numeric strings.
PlaceCity ==
    [class |-> "boundary",
     display_name |-> "San Francisco, California, United States",
     boundingbox |-> <<"37.70", "37.81", "-122.52", "-122.35">>,
     lat |-> "37.7790", lon |-> "-122.4199"]

PlaceCounty ==
    [class |-> "boundary",
     display_name |-> "San Francisco County, California, United States",
     boundingbox |-> <<"37.64", "37.93", "-123.17", "-122.28">>,
     lat |-> "37.7793", lon |-> "-122.4193"]

PlaceTown ==
    [class |-> "place",
     display_name |-> "San Francisco, Cordoba, Argentina",
     boundingbox |-> <<"-31.45", "-31.40", "-62.11", "-62.05">>,
     lat |-> "-31.4275", lon |-> "-62.0827"]

PlaceCafe ==
    [class |-> "amenity",
     display_name |-> "Cafe San Francisco, Main St, Springfield",
     boundingbox |-> <<"39.79", "39.80", "-89.65", "-89.64">>,
     lat |-> "39.7990", lon |-> "-89.6440"]

PlaceRecords == {PlaceCity, PlaceCounty, PlaceTown, PlaceCafe}

\* the answers of the geocoder: distinct places, in the service's order
GeocoderAnswers ==
    {a \in SeqsUpTo(PlaceRecords, MaxPlaces) : NoDuplicates(a)}

\* Tags of a node: the JSON object's items, in order, as <<key, value>>.
TagsJoes ==
    << <<"amenity", "restaurant">>, <<"name", "Joe's">>,
       <<"addr:street", "Main St">> >>

TagsUnnamed == << <<"amenity", "restaurant">> >>

TagsCanteen ==
    << <<"name", "Mercy Canteen">>, <<"amenity", "restaurant">>,
       <<"building", "hospital">> >>

TagsSchool ==
    << <<"amenity", "school">>, <<"name", "Lincoln">>,
       <<"old_name", "Old Lincoln">>, <<"wheelchair", "yes">> >>

TagsMarket ==
    << <<"shop", "supermarket">>, <<"surname_prefix", "von">>,
       <<"name", "">>, <<"opening_hours", "24/7">> >>

TagSets == {TagsJoes, TagsUnnamed, TagsCanteen, TagsSchool, TagsMarket}

\* The i-th node of the map: every node has its own coordinates.
Node(i, tags) == [lat |-> i, lon |-> 0 - i, tags |-> tags]

\* a map of n nodes whose tags repeat the pattern
Repeat(pattern, n) == [tags |-> pattern, size |-> n]

\* the nodes of a map, in the service's order
MapNodes(map) ==
    [i \in 1..map.size |-> Node(i, map.tags[((i - 1) % Len(map.tags)) + 1])]

SmallMaps == {Repeat(t, Len(t)) : t \in SeqsUpTo(TagSets, MaxNodes)}

\* the empty map and two maps of one restaurant, named and unnamed
TinyMaps == {Repeat(t, Len(t)) : t \in SeqsUpTo({TagsJoes, TagsUnnamed}, 1)}

\* one answer of the geocoder for each branch of app.py:84-94
FewAnswers == {<<>>, <<PlaceCity>>, <<PlaceCafe, PlaceTown, PlaceCity>>}

\* maps around the cap of app.py:120-127
LargeMaps ==
    {Repeat(<<TagsJoes>>, DISPLAY_CAP),
     Repeat(<<TagsJoes>>, DISPLAY_CAP + 1),
     Repeat(<<TagsUnnamed, TagsJoes, TagsCanteen>>, DISPLAY_CAP + MaxNodes)}

-----------------------------------------------------------------------------
(* osm.py: the connection's two methods the script calls.                  *)

\* OSMConnection.lookup_place(name).toJSON(): the geocoder's answer
lookup_place(name) == IF name = QueryName THEN nominatim_db ELSE <<>>

(* Overpass reads the four numbers after a tag filter as                   *)
(* (south, west, north, east); blanks after the commas are ignored.  The   *)
(* nodes of the world lie inside the area of every place of the world.     *)
Areas ==
    UNION {{Join(<<p.boundingbox[1], p.boundingbox[3],
                   p.boundingbox[2], p.boundingbox[4]>>, sep) :
            sep \in {",", ", "}} : p \in PlaceRecords}

\* every tag some node of a map can carry
KnownTags == UNION {Range(t) : t \in TagSets}

\* the tags k=v that a statement node[k=v](area); of the list asks for
TagFilters(statements) ==
    {kv \in KnownTags :
        \E j \in 1..Len(statements), area \in Areas :
            statements[j] = "node[" \o kv[1] \o "=" \o kv[2]
                            \o "](" \o area \o ");"}

(* OSMConnection.query_overpass_raw(query).elements(), for the query whose *)
(* union body holds the statements `statements': the nodes that carry a    *)
(* tag some statement asks for, in the service's order.                    *)
query_overpass_raw(statements) ==
    LET filters == TagFilters(statements)
    IN  SelectSeq(MapNodes(osm_map),
                  LAMBDA node : \E i \in 1..Len(node.tags) :
                                    node.tags[i] \in filters)

-----------------------------------------------------------------------------
(* app.py: the values the script computes.                                 *)

None == <<>>

\* mutant of FilterPlaces: the class "place" is forgotten
FilterPlacesBoundaryOnly(json) ==
    SelectSeq(json, LAMBDA place : place.class \in {"boundary"})

\* app.py:83, the comprehension over the geocoder's JSON
FilterPlaces(json) ==
    SelectSeq(json, LAMBDA place : place.class \in {"boundary", "place"})

\* the lists the multiselect can return: options picked, each once
ChoiceLists ==
    {cs \in SeqsUpTo(Range(poi_categories), MaxChoices) : NoDuplicates(cs)}

\* mutant of ChoiceSelectors: only the first value of the category is paired
ChoiceSelectorsFirstValue(choice) ==
    <<choice.key \o "=" \o choice.vals[1]>>

\* app.py:105, [k + "=" + v for k, v in zip([choice[0]] * len(choice[1]), choice[1])]
ChoiceSelectors(choice) ==
    [i \in 1..Len(choice.vals) |-> choice.key \o "=" \o choice.vals[i]]

\* app.py:103-105
RECURSIVE Selectors(_)
Selectors(cs) ==
    IF Len(cs) = 0 THEN <<>>
    ELSE ChoiceSelectors(cs[1]) \o Selectors(Tail(cs))

\* mutant of BboxString: the geocoder's order is passed on unchanged
BboxStringGeocoderOrder(place) ==
    LET lat1 == place.boundingbox[1]
        lat2 == place.boundingbox[2]
        lon1 == place.boundingbox[3]
        lon2 == place.boundingbox[4]
    IN  Join(<<lat1, lat2, lon1, lon2>>, ", ")

\* app.py:107-108
BboxString(place) ==
    LET lat1 == place.boundingbox[1]
        lat2 == place.boundingbox[2]
        lon1 == place.boundingbox[3]
        lon2 == place.boundingbox[4]
    IN  Join(<<lat1, lon1, lat2, lon2>>, ", ")

\* app.py:109
NodeStatements(sels, bbox_string) ==
    [i \in 1..Len(sels) |-> "node[" \o sels[i] \o "](" \o bbox_string \o ");"]

\* app.py:110-113
QueryText(statements) ==
    "\n            (\n                " \o Join(statements, "\n ")
    \o "\n            ); out center; out body;"

\* Element.tag(key): the value, or None
Tag(poi, key) ==
    LET at == {i \in 1..Len(poi.tags) : poi.tags[i][1] = key}
    IN  IF at = {} THEN None ELSE <<poi.tags[CHOOSE i \in at : TRUE][2]>>

\* set(poi.tags().values())
TagValues(poi) == {poi.tags[i][2] : i \in 1..Len(poi.tags)}

\* app.py:125, the names of the categories a value of the node belongs to
MatchingCategories(poi) ==
    SelectSeq(poi_categories,
              LAMBDA c : TagValues(poi) \cap Range(c.vals) # {})

\* app.py:125, poi_colors[ [...][0] ]
Color(poi) == poi_colors[MatchingCategories(poi)[1].name]

\* mutant of SummaryKeeps: the key is compared, not searched
SummaryKeepsExactKeys(k) == k # "addr" /\ k # "name"

\* app.py:126, the condition of the comprehension
SummaryKeeps(k) == ~Contains(k, "addr") /\ ~Contains(k, "name")

\* app.py:126
TagSummary(poi) ==
    LET kept == SelectSeq(poi.tags, LAMBDA kv : SummaryKeeps(kv[1]))
    IN  Join([i \in 1..Len(kept) |-> kept[i][1] \o ": " \o kept[i][2]],
             "<br>")

\* h3.geo_to_h3(lat, lon, resolution): the cell of the point, kept abstract
geo_to_h3(lat, lon, resolution) == <<"h3", resolution, lat, lon>>

\* app.py:122-127, one dictionary of the comprehension
PoiRecord(poi) ==
    [Name |-> Tag(poi, "name")[1],
     hex |-> geo_to_h3(poi.lat, poi.lon, H3_LEVEL),
     color |-> Color(poi),
     tags |-> TagSummary(poi)]

\* mutant of Displayed: the slice [:10_000] is forgotten
DisplayedUncapped(elements) ==
    SelectSeq(elements, LAMBDA poi : Tag(poi, "name") # None)

\* mutant of Displayed: `if poi.tag("name")', an empty name counts as none
DisplayedTruthyName(elements) ==
    SelectSeq(Take(elements, DISPLAY_CAP),
              LAMBDA poi : Tag(poi, "name") # None /\ Tag(poi, "name")[1] # "")

\* app.py:127, results.nodes()[:10_000] if poi.tag("name") is not None
Displayed(elements) ==
    SelectSeq(Take(elements, DISPLAY_CAP),
              LAMBDA poi : Tag(poi, "name") # None)

\* app.py:122-127
Pois(elements) ==
    LET named == Displayed(elements)
    IN  [i \in 1..Len(named) |-> PoiRecord(named[i])]

\* app.py:120
Truncated(count) == count > DISPLAY_CAP

Warning(text) == [kind |-> "warning", text |-> text]
Info(text) == [kind |-> "info", text |-> text]

-----------------------------------------------------------------------------
(* The state after construction: no run has happened, the text input is    *)
(* empty and the other widgets hold their defaults.                        *)

FirstRun ==
    /\ place_name = ""
    /\ select_index = 0
    /\ user_chose = FALSE
    /\ choices = <<>>
    /\ rendered = {}
    /\ pc = "text_input"
    /\ places = <<>>
    /\ selection = None
    /\ selectors = <<>>
    /\ nodes = <<>>
    /\ query = ""
    /\ overpass_calls = 0
    /\ results = <<>>
    /\ pois = <<>>
    /\ shown = <<>>
    /\ raised = "none"

\* every answer of the geocoder, over the maps of at most one restaurant
Init ==
    /\ nominatim_db \in GeocoderAnswers
    /\ osm_map \in TinyMaps
    /\ FirstRun

\* every small map, in the one city found
InitPois ==
    /\ \/ nominatim_db = <<PlaceCity>> /\ osm_map \in SmallMaps
       \/ nominatim_db \in FewAnswers /\ osm_map \in TinyMaps
    /\ FirstRun

\* maps around the cap on the displayed nodes, in the one city found
InitCap ==
    /\ \/ nominatim_db = <<PlaceCity>> /\ osm_map \in LargeMaps
       \/ nominatim_db \in FewAnswers /\ osm_map \in TinyMaps
    /\ FirstRun

-----------------------------------------------------------------------------
(* The user: one widget changes while the script is idle, and Streamlit    *)
(* runs the script again.  A widget the last run did not render has lost   *)
(* its value and is back to its default.                                   *)

Idle == pc \in {"done", "aborted"}

\* the script starts again from line 1 with fresh variables
Restart(page) ==
    /\ pc' = "text_input"
    /\ rendered' = {}
    /\ places' = <<>>
    /\ selection' = None
    /\ selectors' = <<>>
    /\ nodes' = <<>>
    /\ query' = ""
    /\ overpass_calls' = 0
    /\ results' = <<>>
    /\ pois' = <<>>
    /\ shown' = page
    /\ raised' = "none"
    /\ UNCHANGED world

KeptIndex == IF "selectbox" \in rendered THEN select_index ELSE 0
KeptChose == IF "selectbox" \in rendered THEN user_chose ELSE FALSE
KeptChoices == IF "multiselect" \in rendered THEN choices ELSE <<>>

\* app.py:81, the text changes: on_change=st.balloons runs, then the script
EnterPlaceName(name) ==
    /\ Idle
    /\ name # place_name
    /\ place_name' = name
    /\ select_index' = KeptIndex
    /\ user_chose' = KeptChose
    /\ choices' = KeptChoices
    /\ Restart(<<[kind |-> "balloons", text |-> ""]>>)

\* app.py:85-89, the user picks another option of the selectbox
ChooseCandidate(i) ==
    /\ Idle
    /\ "selectbox" \in rendered
    /\ i \in 0..(Len(places) - 1)
    /\ i # select_index
    /\ select_index' = i
    /\ user_chose' = TRUE
    /\ choices' = KeptChoices
    /\ UNCHANGED place_name
    /\ Restart(<<>>)

\* app.py:97-101, the user changes the picked categories
ChooseCategories(cs) ==
    /\ Idle
    /\ "multiselect" \in rendered
    /\ cs # choices
    /\ choices' = cs
    /\ select_index' = KeptIndex
    /\ user_chose' = KeptChose
    /\ UNCHANGED place_name
    /\ Restart(<<>>)

-----------------------------------------------------------------------------
(* One run of the script, app.py:81-157.                                   *)

\* app.py:81-82
TextInput ==
    /\ pc = "text_input"
    /\ rendered' = rendered \cup {"text_input"}
    /\ pc' = IF place_name # "" THEN "lookup_place" ELSE "done"
    /\ UNCHANGED <<world, widgets, places, selection, selectors, nodes,
                   query, overpass_calls, results, pois, shown, raised>>

\* app.py:83, the geocoder answers
LookupPlace ==
    /\ pc = "lookup_place"
    /\ places' = FilterPlaces(lookup_place(place_name))
    /\ pc' = "candidates"
    /\ UNCHANGED <<world, widgets, rendered, selection, selectors, nodes,
                   query, overpass_calls, results, pois, shown, raised>>

\* app.py:83, osm.py:67: the geocoder's client raises, nothing catches it
LookupPlaceRaises ==
    /\ pc = "lookup_place"
    /\ raised' = "lookup_place"
    /\ pc' = "aborted"
    /\ UNCHANGED <<world, widgets, rendered, places, selection, selectors,
                   nodes, query, overpass_calls, results, pois, shown>>

\* st.selectbox(options): the option at the widget's index, 0 by default
selectbox(options) == options[select_index + 1]

\* app.py:84-89 and 96
SeveralCandidates ==
    /\ pc = "candidates"
    /\ Len(places) > 1
    /\ rendered' = rendered \cup {"selectbox"}
    /\ selection' = <<selectbox(places)>>
    /\ pc' = "multiselect"
    /\ UNCHANGED <<world, widgets, places, selectors, nodes, query,
                   overpass_calls, results, pois, shown, raised>>

\* app.py:90-91 and 96
OneCandidate ==
    /\ pc = "candidates"
    /\ Len(places) = 1
    /\ selection' = <<places[1]>>
    /\ pc' = "multiselect"
    /\ UNCHANGED <<world, widgets, rendered, places, selectors, nodes, query,
                   overpass_calls, results, pois, shown, raised>>

\* app.py:92-94 and 96
NoCandidate ==
    /\ pc = "candidates"
    /\ Len(places) = 0
    /\ shown' = Append(shown,
                  Warning("No places with such name found.. try again?"))
    /\ selection' = None
    /\ pc' = "done"
    /\ UNCHANGED <<world, widgets, rendered, places, selectors, nodes, query,
                   overpass_calls, results, pois, raised>>

\* mutant of Multiselect: the test `if len(choices)' is forgotten
MultiselectUnguarded ==
    /\ pc = "multiselect"
    /\ rendered' = rendered \cup {"multiselect"}
    /\ pc' = "build_query"
    /\ UNCHANGED <<world, widgets, places, selection, selectors, nodes,
                   query, overpass_calls, results, pois, shown, raised>>

\* app.py:97-102
Multiselect ==
    /\ pc = "multiselect"
    /\ rendered' = rendered \cup {"multiselect"}
    /\ pc' = IF Len(choices) # 0 THEN "build_query" ELSE "done"
    /\ UNCHANGED <<world, widgets, places, selection, selectors, nodes,
                   query, overpass_calls, results, pois, shown, raised>>

\* app.py:103-113
BuildQuery ==
    /\ pc = "build_query"
    /\ selectors' = Selectors(choices)
    /\ nodes' = NodeStatements(selectors', BboxString(selection[1]))
    /\ query' = QueryText(nodes')
    /\ pc' = "query_overpass"
    /\ UNCHANGED <<world, widgets, rendered, places, selection,
                   overpass_calls, results, pois, shown, raised>>

\* app.py:115, the service answers
QueryOverpass ==
    /\ pc = "query_overpass"
    /\ overpass_calls' = overpass_calls + 1
    /\ results' = query_overpass_raw(nodes)
    /\ pc' = "count"
    /\ UNCHANGED <<world, widgets, rendered, places, selection, selectors,
                   nodes, query, pois, shown, raised>>

\* app.py:115, osm.py:133: the service's client raises, nothing catches it
QueryOverpassRaises ==
    /\ pc = "query_overpass"
    /\ overpass_calls' = overpass_calls + 1
    /\ raised' = "query_overpass_raw"
    /\ pc' = "aborted"
    /\ UNCHANGED <<world, widgets, rendered, places, selection, selectors,
                   nodes, query, results, pois, shown>>

\* results.countElements()
countElements == Len(results)

\* app.py:116-117
NoResults ==
    /\ pc = "count"
    /\ countElements = 0
    /\ shown' = Append(shown,
                  Warning("No points of interest found - try another category or choose a different location"))
    /\ pc' = "done"
    /\ UNCHANGED <<world, widgets, rendered, places, selection, selectors,
                   nodes, query, overpass_calls, results, pois, raised>>

\* app.py:118-121
SomeResults ==
    /\ pc = "count"
    /\ countElements # 0
    /\ LET found == Info("Found a total of " \o ToString(countElements)
                         \o " points of interest in "
                         \o selection[1].display_name)
       IN  shown' = IF Truncated(countElements)
                    THEN shown \o <<found,
                             Warning("Displaying only the first 10,000 results")>>
                    ELSE Append(shown, found)
    /\ pc' = "build_pois"
    /\ UNCHANGED <<world, widgets, rendered, places, selection, selectors,
                   nodes, query, overpass_calls, results, pois, raised>>

\* app.py:122-127; [...][0] raises IndexError on a node no category matches
BuildPois ==
    /\ pc = "build_pois"
    /\ IF LET named == Displayed(results)
          IN  \A i \in 1..Len(named) : Len(MatchingCategories(named[i])) > 0
       THEN /\ pois' = Pois(results)
            /\ pc' = "render"
            /\ UNCHANGED raised
       ELSE /\ raised' = "IndexError"
            /\ pc' = "aborted"
            /\ UNCHANGED pois
    /\ UNCHANGED <<world, widgets, rendered, places, selection, selectors,
                   nodes, query, overpass_calls, results, shown>>

\* app.py:129-157
Render ==
    /\ pc = "render"
    /\ shown' = Append(shown, [kind |-> "pydeck_chart", text |-> ""])
    /\ pc' = "done"
    /\ UNCHANGED <<world, widgets, rendered, places, selection, selectors,
                   nodes, query, overpass_calls, results, pois, raised>>

Next ==
    \/ \E name \in PlaceNames : EnterPlaceName(name)
    \/ \E i \in 0..(MaxPlaces - 1) : ChooseCandidate(i)
    \/ \E cs \in ChoiceLists : ChooseCategories(cs)
    \/ TextInput
    \/ LookupPlace
    \/ LookupPlaceRaises
    \/ SeveralCandidates
    \/ OneCandidate
    \/ NoCandidate
    \/ Multiselect
    \/ BuildQuery
    \/ QueryOverpass
    \/ QueryOverpassRaises
    \/ NoResults
    \/ SomeResults
    \/ BuildPois
    \/ Render

Spec == Init /\ [][Next]_vars

SpecPois == InitPois /\ [][Next]_vars

SpecCap == InitCap /\ [][Next]_vars

-----------------------------------------------------------------------------
(* Vocabulary of the claims.                                               *)

RunPositions ==
    {"text_input", "lookup_place", "candidates", "multiselect",
     "build_query", "query_overpass", "count", "build_pois", "render",
     "done", "aborted"}

\* the run is past the selection of a candidate
PastSelection ==
    pc \in {"multiselect", "build_query", "query_overpass", "count",
            "build_pois", "render"}

\* the geocoder has answered in this run
LookedUp ==
    /\ place_name # ""
    /\ pc \notin {"text_input", "lookup_place"}
    /\ raised # "lookup_place"

ShownKinds(kind) == {i \in 1..Len(shown) : shown[i].kind = kind}

ShownWarning(text) == \E i \in 1..Len(shown) : shown[i] = Warning(text)

NotFoundShown ==
    ShownWarning("No places with such name found.. try again?")

NoResultsShown ==
    ShownWarning("No points of interest found - try another category or choose a different location")

TruncationShown == ShownWarning("Displaying only the first 10,000 results")

ChartShown == ShownKinds("pydeck_chart") # {}

HasNameTag(poi) == \E i \in 1..Len(poi.tags) : poi.tags[i][1] = "name"

NameOf(poi) ==
    poi.tags[CHOOSE i \in 1..Len(poi.tags) : poi.tags[i][1] = "name"][2]

\* positions of the named nodes among the first n elements of the result
NamedAmongFirst(n) ==
    {i \in 1..Min(Len(results), n) : HasNameTag(results[i])}

\* the place of position i among the positions of the set
Rank(positions, i) == Cardinality({j \in positions : j <= i})

RECURSIVE SumOfValues(_)
SumOfValues(cs) ==
    IF Len(cs) = 0 THEN 0 ELSE Len(cs[1].vals) + SumOfValues(Tail(cs))

Restaurants == poi_categories[3]

-----------------------------------------------------------------------------
(* C1 (as claimed): when the resolver yields more than one candidate, the  *)
(* run does not go on to category selection or to the data query before    *)
(* the user has explicitly chosen one of the candidates.                   *)
C1_ExplicitChoiceBeforeProceeding ==
    (Len(places) > 1 /\ PastSelection) => user_chose

C2_FirstSelectedCategory(poi) ==
    LET selected == SelectSeq(poi_categories,
                              LAMBDA c : c \in Range(choices))
        hits == SelectSeq(selected,
                          LAMBDA c : \E i \in 1..Len(poi.tags) :
                                         poi.tags[i][2] \in Range(c.vals))
    IN  hits[1].name

(* C2 (as claimed): the color of every POI record is the color of the      *)
(* first category, in declaration order, among the categories the user     *)
(* selected whose tag values intersect the element's tag values.           *)
C2_ColorOfFirstSelectedCategory ==
    pc = "render" =>
        LET named == NamedAmongFirst(10000)
        IN  \A i \in named :
                pois[Rank(named, i)].color
                    = poi_colors[C2_FirstSelectedCategory(results[i])]

(* C3 (as claimed): a failure raised by the data service is reported by    *)
(* the page as a distinct 'retrieval failed' condition, the run is not     *)
(* ended by the exception, and the failed query is not sent again.         *)
C3_RetrievalFailedReported ==
    raised = "query_overpass_raw" =>
        /\ pc # "aborted"
        /\ ShownKinds("error") # {}
        /\ overpass_calls = 1

C4_OrderOf(bb, sep) ==
    bb[1] \o sep \o bb[3] \o sep \o bb[2] \o sep \o bb[4]

C4_RestaurantsInTheCity ==
    /\ choices = <<Restaurants>>
    /\ selection = <<PlaceCity>>

(* C4 (as claimed): every sub-query carries the bounding box in the order  *)
(* (lat1, lon1, lat2, lon2) of the geocoder's (lat1, lat2, lon1, lon2),    *)
(* and for Restaurants in (37.70,37.81,-122.52,-122.35) the sub-query is   *)
(* node[amenity=restaurant](37.70,-122.52,37.81,-122.35);                  *)
C4_SubQueryAsClaimed ==
    pc = "query_overpass" =>
        /\ \A i \in 1..Len(nodes) :
               \E sep \in {",", ", "} :
                   nodes[i] = "node[" \o selectors[i] \o "]("
                       \o C4_OrderOf(selection[1].boundingbox, sep) \o ");"
        /\ C4_RestaurantsInTheCity =>
               nodes = <<"node[amenity=restaurant](37.70,-122.52,37.81,-122.35);">>

(* C4 (amended): every sub-query carries the bounding box in the order     *)
(* (lat1, lon1, lat2, lon2), the four values joined by a comma and a       *)
(* blank; for Restaurants in (37.70,37.81,-122.52,-122.35) the sub-query   *)
(* is node[amenity=restaurant](37.70, -122.52, 37.81, -122.35);            *)
C4_SubQueryBoundingBoxOrder ==
    pc = "query_overpass" =>
        /\ Len(nodes) = Len(selectors)
        /\ \A i \in 1..Len(nodes) :
               nodes[i] = "node[" \o selectors[i] \o "]("
                   \o C4_OrderOf(selection[1].boundingbox, ", ") \o ");"
        /\ C4_RestaurantsInTheCity =>
               nodes = <<"node[amenity=restaurant](37.70, -122.52, 37.81, -122.35);">>

C4_Witness ==
    /\ pc = "query_overpass"
    /\ C4_RestaurantsInTheCity
    /\ Len(nodes) = 1

(* C5: a result of more than 10,000 elements keeps exactly its first       *)
(* 10,000 elements for the records and raises the truncation warning; a    *)
(* result of 10,000 elements or fewer raises no warning and loses no       *)
(* element to the cap.                                                     *)
C5_CapAtTenThousand ==
    /\ pc \in {"build_pois", "render"} =>
           (TruncationShown <=> Len(results) > 10000)
    /\ pc = "render" =>
           LET kept == IF Len(results) > 10000 THEN 10000 ELSE Len(results)
               named == {i \in 1..kept : HasNameTag(results[i])}
           IN  /\ Len(pois) = Cardinality(named)
               /\ {pois[j].hex : j \in 1..Len(pois)}
                      = {geo_to_h3(results[i].lat, results[i].lon, H3_LEVEL) :
                             i \in named}

C5_Witness ==
    /\ pc = "render"
    /\ Len(results) = 10001
    /\ Len(pois) = 10000
    /\ TruncationShown

RECURSIVE C6_TotalLength(_)
C6_TotalLength(statements) ==
    IF Len(statements) = 0 THEN 0
    ELSE Len(statements[1]) + C6_TotalLength(Tail(statements))

(* C6: the number of sub-queries is the sum of the sizes of tag_values     *)
(* over the selected categories, each sub-query pairs the category's key   *)
(* with one of its values, and all of them go out in one request.          *)
C6_OneSubQueryPerTagValue ==
    /\ pc = "query_overpass" =>
           /\ Len(selectors) = SumOfValues(choices)
           /\ Len(nodes) = SumOfValues(choices)
           /\ \A j \in 1..Len(choices) :
                  \A m \in 1..Len(choices[j].vals) :
                      LET at == SumOfValues(SubSeq(choices, 1, j - 1)) + m
                      IN  /\ selectors[at]
                                = choices[j].key \o "=" \o choices[j].vals[m]
                          /\ \E area \in Areas :
                                 nodes[at] = "node[" \o selectors[at] \o "]("
                                                 \o area \o ");"
           /\ Len(query) = Len("\n            (\n                ")
                               + C6_TotalLength(nodes) + 2 * (Len(nodes) - 1)
                               + Len("\n            ); out center; out body;")
           /\ overpass_calls = 0
    /\ pc \in {"count", "build_pois", "render"} => overpass_calls = 1
    /\ overpass_calls <= 1

C6_Witness ==
    /\ pc = "query_overpass"
    /\ Len(choices) = 2
    /\ Len(nodes) >= 3

(* C7: resolve returns exactly the geocoder's results of class boundary or *)
(* place, in the geocoder's order; with no such result it returns an empty *)
(* sequence and the page shows the 'not found' warning.                    *)
C7_ResolveKeepsBoundaryAndPlace ==
    LookedUp =>
        LET keep == {i \in 1..Len(nominatim_db) :
                         nominatim_db[i].class \in {"boundary", "place"}}
        IN  /\ Len(places) = Cardinality(keep)
            /\ \A i \in keep : places[Rank(keep, i)] = nominatim_db[i]
            /\ keep = {} => places = <<>>
            /\ pc = "done" => (NotFoundShown <=> keep = {})

C7_Witness ==
    /\ LookedUp
    /\ pc = "done"
    /\ Len(places) > 0
    /\ Len(nominatim_db) > Len(places)

C8_KeysWithAddrOrName == {"name", "addr:street", "old_name", "surname_prefix"}

RECURSIVE C8_Summary(_)
C8_Summary(tags) ==
    IF Len(tags) = 0 THEN <<>>
    ELSE IF tags[1][1] \in C8_KeysWithAddrOrName
         THEN C8_Summary(Tail(tags))
         ELSE <<tags[1][1] \o ": " \o tags[1][2]>> \o C8_Summary(Tail(tags))

RECURSIVE C8_Lines(_)
C8_Lines(lines) ==
    IF Len(lines) = 0 THEN ""
    ELSE IF Len(lines) = 1 THEN lines[1]
    ELSE lines[1] \o "<br>" \o C8_Lines(Tail(lines))

(* C8: the tag summary of a rendered element is its tags in tag order,     *)
(* each as "key: value", joined by "<br>", without exactly the tags whose  *)
(* key contains "addr" or "name"; tags {amenity: restaurant, name: Joe's,  *)
(* addr:street: Main St} give "amenity: restaurant".                       *)
C8_TagSummary ==
    pc = "render" =>
        LET named == NamedAmongFirst(10000)
        IN  \A i \in named :
                /\ pois[Rank(named, i)].tags
                       = C8_Lines(C8_Summary(results[i].tags))
                /\ results[i].tags = TagsJoes =>
                       pois[Rank(named, i)].tags = "amenity: restaurant"

C8_Witness ==
    /\ pc = "render"
    /\ \E j \in 1..Len(pois) :
           pois[j].Name = "Joe's" /\ pois[j].tags = "amenity: restaurant"
    /\ \E j \in 1..Len(pois) :
           pois[j].tags = "amenity: school<br>wheelchair: yes"

(* C9: no record is produced for an element without a name tag, every      *)
(* element with a name tag among the retained elements gives exactly one   *)
(* record, and the records keep the order of the elements.                 *)
C9_OneRecordPerNamedElement ==
    pc = "render" =>
        LET named == NamedAmongFirst(10000)
        IN  /\ Len(pois) = Cardinality(named)
            /\ \A i \in named :
                   /\ pois[Rank(named, i)].Name = NameOf(results[i])
                   /\ pois[Rank(named, i)].hex
                          = <<"h3", 12, results[i].lat, results[i].lon>>

C9_Witness ==
    /\ pc = "render"
    /\ Len(results) = 2
    /\ Len(pois) = 1
    /\ \E i \in 1..Len(results) : ~HasNameTag(results[i])

(* C10: in every run the stages come in the order place resolution,        *)
(* candidate selection, category selection, data query, render; the query  *)
(* is sent only with a selected candidate and at least one category, so    *)
(* not with an empty text, no candidate or no category; the map is         *)
(* rendered only after a query that returned elements, and an empty result *)
(* gives the 'no results' warning and no map.                              *)
C10_StagesInOrder ==
    /\ pc \in RunPositions
    /\ selection # None => LookedUp /\ Len(places) > 0
    /\ "multiselect" \in rendered => selection # None
    /\ (pc \in {"build_query", "query_overpass"} \/ overpass_calls > 0) =>
           /\ "multiselect" \in rendered
           /\ selection # None
           /\ Len(choices) > 0
           /\ place_name # ""
    /\ overpass_calls > 0 => nodes # <<>>
    /\ (ChartShown \/ pc \in {"build_pois", "render"}) =>
           /\ overpass_calls = 1
           /\ raised = "none"
           /\ Len(results) > 0
           /\ ~NoResultsShown
    /\ ChartShown => pc = "done" /\ Len(pois) = Cardinality(NamedAmongFirst(10000))
    /\ (pc = "done" /\ overpass_calls = 1 /\ Len(results) = 0) =>
           NoResultsShown /\ ~ChartShown
    /\ NoResultsShown => overpass_calls = 1 /\ Len(results) = 0

C10_Witness ==
    /\ pc = "done"
    /\ ChartShown
    /\ Len(places) > 1

====
